---- MODULE Spec2Model ----
(***************************************************************************)
(* rs_ping: the ping session (main + Pinger::run), the statistics          *)
(* aggregator (PingStats) and the Internet checksum                         *)
(* (Pinger::calculate_checksum), as state machines.                         *)
(*                                                                          *)
(* Spec / FairSpec : one process run, from `Pinger::new` in main to the     *)
(*                   drop of the Pinger at the end of main.                 *)
(* CkSpec          : calculate_checksum applied to bounded buffers.         *)
(***************************************************************************)
EXTENDS Integers, Sequences, FiniteSets, TLC

VARIABLES
    pc,                 \* position of the main thread in main / Pinger::run
    count,              \* config.count : Option<u32>
    socket,             \* Pinger.socket : Option<Socket>
    current_ping_start, \* Pinger.current_ping_start : Option<Instant>
    running,            \* Pinger.running : Arc<AtomicBool>
    handler,            \* whether ctrlc::set_handler has installed the closure
    seq,                \* the local `seq` of Pinger::run (u32)
    stats,              \* Pinger.stats : PingStats
    result,             \* what Pinger::run returned (NoResult while it runs)
    openFds,            \* raw sockets the process holds open (OS side)
    inbound,            \* frames queued in the raw socket, oldest first
    wire,               \* the last frame handed to send_to (<<>> before any)
    lastLine,           \* the last per-reply line printed (None before any)
    summary,            \* the statistics block printed (None before it)
    nSummaries,         \* how many statistics blocks were printed
    sendsAfterStore,    \* transmissions made after the handler stored false
    ckBuf,              \* checksum development: the buffer
    ckSum,              \* checksum development: calculate_checksum of ckBuf
    ckPc,               \* checksum development: position
    recorded,           \* PingStats development: the RTTs given to record_received
    calls,              \* PingStats development: calls made so far
    stOut,              \* PingStats development: what the getters returned last
    args,               \* parse_args: the argument list (args[0] is the program)
    argi,               \* parse_args: the local `i`
    opts,               \* parse_args: the local `opts`
    parsed,             \* parse_args: its outcome (NoResult while it runs)
    lookups             \* parse_args: the tokens handed to lookup_host

vars == <<pc, count, socket, current_ping_start, running, handler, seq, stats,
          result, openFds, inbound, wire, lastLine, summary, nSummaries,
          sendsAfterStore, ckBuf, ckSum, ckPc, recorded, calls, stOut,
          args, argi, opts, parsed, lookups>>

runVars == <<pc, count, socket, current_ping_start, running, handler, seq,
             stats, result, openFds, inbound, wire, lastLine, summary,
             nSummaries, sendsAfterStore>>

ckVars == <<ckBuf, ckSum, ckPc>>

stVars == <<recorded, calls, stOut>>

paVars == <<args, argi, opts, parsed, lookups>>

\* Option<T>: None is the empty sequence, Some(x) the sequence of x alone
None == <<>>
Some(x) == <<x>>
Unwrap(o) == o[1]
\* run() has not returned yet
NoResult == "NoResult"

(***************************************************************************)
(* Bounds of the model.                                                     *)
(***************************************************************************)
\* largest value of -c tried
MaxCount == 3
\* iterations explored when count is None (the loop is unbounded)
MaxSent == 3
\* elapsed times (Instant::elapsed) range over 1..MaxRtt
MaxRtt == 2
\* frames the socket queues before the loop reads them
MaxInbound == 1
\* longest buffer handed to calculate_checksum in CkSpec
MaxBufLen == 6

(***************************************************************************)
(* Program constants.                                                       *)
(***************************************************************************)
\* PingConfig::default().packet_size
PacketSize == 56
\* `20 + 8` in receive_pong: IPv4 header, ICMP header
IpHeaderLen == 20
IcmpHeaderLen == 8
\* receive buffer of receive_pong
RecvBufLen == 64
\* buf[0] = 8 in send_ping; icmp_type == 0 in receive_pong
EchoRequest == 8
EchoReply == 0
\* 2^16: the width of `as u16`, of the folded sum and of the checksum field
U16 == 65536

(***************************************************************************)
(* Bytes.  A buffer is a sequence of bytes; Rust's buf[i] is At(buf, i).    *)
(***************************************************************************)
At(buf, i) == buf[i + 1]

\* u16::to_be_bytes
to_be_bytes(x) == <<x \div 256, x % 256>>

\* u16::from_be_bytes
from_be_bytes(hi, lo) == hi * 256 + lo

\* buf[a..a+2].copy_from_slice(&two)
copy_from_slice(buf, a, two) ==
    [i \in 1..Len(buf) |-> IF i = a + 1 THEN two[1]
                           ELSE IF i = a + 2 THEN two[2]
                           ELSE buf[i]]

(***************************************************************************)
(* Pinger::calculate_checksum (pinger.rs 151-170).                          *)
(* `sum` is a u32.  It cannot overflow here: a buffer of n bytes sums to    *)
(* less than (n / 2 + 1) * 2^16, and the buffers of this program have at    *)
(* most 64 bytes, so the additions are written without a modulus.           *)
(* The operator is used on buffers of at least one byte: with an empty      *)
(* buffer `len - 1` underflows in the source.                               *)
(***************************************************************************)
RECURSIVE SumWords(_, _, _)
\* while i < len - 1 { sum += (buf[i] << 8) | buf[i + 1]; i += 2 }
SumWords(buf, i, sum) ==
    IF i < Len(buf) - 1
    THEN SumWords(buf, i + 2, sum + At(buf, i) * 256 + At(buf, i + 1))
    ELSE sum

\* if len % 2 == 1 { sum += buf[len - 1] << 8 }
AddOddByte(buf, sum) ==
    IF Len(buf) % 2 = 1 THEN sum + At(buf, Len(buf) - 1) * 256 ELSE sum

RECURSIVE FoldCarries(_)
\* while (sum >> 16) != 0 { sum = (sum & 0xFFFF) + (sum >> 16) }
FoldCarries(sum) ==
    IF sum \div U16 # 0 THEN FoldCarries((sum % U16) + (sum \div U16)) ELSE sum

\* !sum as u16: the low 16 bits of the complement of the u32
NotAsU16(sum) == (U16 - 1) - (sum % U16)

\* the same loop reading each word low byte first (an endianness slip)
RECURSIVE SumWordsLE(_, _, _)
SumWordsLE(buf, i, sum) ==
    IF i < Len(buf) - 1
    THEN SumWordsLE(buf, i + 2, sum + At(buf, i) + At(buf, i + 1) * 256)
    ELSE sum

calculate_checksum_le(buf) ==
    NotAsU16(FoldCarries(AddOddByte(buf, SumWordsLE(buf, 0, 0))))

calculate_checksum(buf) ==
    NotAsU16(FoldCarries(AddOddByte(buf, SumWords(buf, 0, 0))))

(***************************************************************************)
(* PingStats (stats.rs).                                                    *)
(***************************************************************************)
\* PingStats::new / Default
NewStats ==
    [packets_sent |-> 0, packets_received |-> 0,
     min_rtt |-> None, max_rtt |-> None, total_rtt |-> 0]

\* a record_sent that forgets the increment
record_sent_lost(s) == s

\* self.packets_sent += 1 (a u32; the runs explored stay far below 2^32)
record_sent(s) == [s EXCEPT !.packets_sent = @ + 1]

update_rtt(s, rtt) ==
    [s EXCEPT
        !.min_rtt = IF @ = None THEN Some(rtt)
                    ELSE IF Unwrap(@) < rtt THEN @ ELSE Some(rtt),
        !.max_rtt = IF @ = None THEN Some(rtt)
                    ELSE IF Unwrap(@) > rtt THEN @ ELSE Some(rtt),
        !.total_rtt = @ + rtt]

\* a record_received that forgets to count the reply
record_received_uncounted(s, rtt) == update_rtt(s, rtt)

record_received(s, rtt) ==
    update_rtt([s EXCEPT !.packets_received = @ + 1], rtt)

\* An f64 is kept as the exact fraction num / den it approximates.
\* `underflow` marks the u32 subtraction packets_sent - packets_received
\* with packets_received > packets_sent: a debug build panics there, a
\* release build wraps to 2^32 + sent - received, which is more than
\* packets_sent, so the value returned is above 100.
Fraction(n, d) == [underflow |-> FALSE, num |-> n, den |-> d]
Underflow == [underflow |-> TRUE, num |-> 0, den |-> 1]

\* the share of replies instead of the share of losses
get_loss_percetange_received(s) ==
    IF s.packets_sent = 0
    THEN Fraction(0, 1)
    ELSE Fraction(s.packets_received * 100, s.packets_sent)

\* PingStats::get_loss_percetange
get_loss_percetange(s) ==
    IF s.packets_sent = 0
    THEN Fraction(0, 1)
    ELSE IF s.packets_received > s.packets_sent
         THEN Underflow
         ELSE Fraction((s.packets_sent - s.packets_received) * 100, s.packets_sent)

\* an average that divides by the requests sent
get_avg_rtt_by_sent(s) ==
    IF s.packets_received > 0
    THEN Some(s.total_rtt \div (IF s.packets_sent = 0 THEN 1 ELSE s.packets_sent))
    ELSE None

\* PingStats::get_avg_rtt.  Durations are counted in nanoseconds, the
\* resolution of Duration; Duration / u32 truncates to it.
get_avg_rtt(s) ==
    IF s.packets_received > 0
    THEN Some(s.total_rtt \div s.packets_received)
    ELSE None

\* duration_as_ms printed with {:.3}: thousandths of a millisecond, nearest
Ms3(d) == (d + 500) \div 1000

\* PingStats::format_rtt: the text, and the three numbers it holds
format_rtt(s) ==
    IF s.min_rtt # None /\ get_avg_rtt(s) # None /\ s.max_rtt # None
    THEN [text |-> "{:.3}/{:.3}/{:.3}",
          ms |-> <<Ms3(Unwrap(s.min_rtt)), Ms3(Unwrap(get_avg_rtt(s))),
                   Ms3(Unwrap(s.max_rtt))>>]
    ELSE [text |-> "---/---/--- ms", ms |-> <<>>]

(***************************************************************************)
(* Frames.                                                                  *)
(***************************************************************************)
\* vec![0u8; n]
Zeroes(n) == [i \in 1..n |-> 0]

\* the frame send_ping builds for `seq` before the checksum is written
RequestHeader(s) ==
    LET buf0 == Zeroes(IcmpHeaderLen)
        buf1 == [buf0 EXCEPT ![1] = EchoRequest, ![2] = 0]
    IN  copy_from_slice(buf1, 4, to_be_bytes(s % U16))

\* the frame send_ping hands to send_to
BuildRequest(s) ==
    LET buf == RequestHeader(s)
    IN  copy_from_slice(buf, 2, to_be_bytes(calculate_checksum(buf)))

\* what recv_from can deliver: an IPv4 header (TTL at offset 8) followed by
\* an ICMP message (type at offset 20, sequence number at offsets 24-25)
MkFrame(len, type, seqno, ttl) ==
    [i \in 1..len |->
        CASE i = 1  -> 69
          [] i = 9  -> ttl
          [] i = 21 -> type
          [] i = 25 -> seqno \div 256
          [] i = 26 -> seqno % 256
          [] OTHER  -> 0]

FrameLens == {IpHeaderLen + IcmpHeaderLen - 1, IpHeaderLen + IcmpHeaderLen, RecvBufLen}
FrameTypes == {EchoReply, 3, EchoRequest}
FrameSeqs == {1, 258}
\* the TTL the received IPv4 headers carry (PingConfig's default ttl)
FrameTtl == 64
Frames == {MkFrame(l, t, s, FrameTtl) : l \in FrameLens, t \in FrameTypes, s \in FrameSeqs}

\* a classification that forgets the length check
Decode_anyLength(buf) ==
    IF At(buf, 20) = EchoReply THEN "Ok" ELSE "InvalidResponse"

\* a classification that also wants the reply to echo bytes 4-5 of the
\* request on the wire
Decode_matching(buf) ==
    IF Len(buf) >= IpHeaderLen + IcmpHeaderLen
    THEN IF /\ At(buf, 20) = EchoReply
            /\ At(buf, 24) = At(wire, 4)
            /\ At(buf, 25) = At(wire, 5)
         THEN "Ok" ELSE "InvalidResponse"
    ELSE "InvalidResponse"

\* receive_pong's classification of the received bytes (pinger.rs 118-138)
Decode(buf) ==
    IF Len(buf) >= IpHeaderLen + IcmpHeaderLen
    THEN IF At(buf, 20) = EchoReply THEN "Ok" ELSE "InvalidResponse"
    ELSE "InvalidResponse"

(***************************************************************************)
(* The session: main (main.rs 4-20) and Pinger::run (pinger.rs 59-77).      *)
(*                                                                          *)
(* pc: "new"         Pinger built by main, run() entered, before init()     *)
(*     "set_handler" socket opened, before ctrlc::set_handler               *)
(*     "loop"        at the `while` condition                               *)
(*     "send"        before send_ping                                       *)
(*     "recv"        before receive_pong (in recv_from)                     *)
(*     "sleep"       before seq += 1 and thread::sleep                      *)
(*     "stats"       loop left, before print_statistics                     *)
(*     "returned"    run() has returned to main                             *)
(*     "exit"        main has returned, the Pinger is dropped               *)
(***************************************************************************)
Counts == {None} \cup {Some(c) : c \in 0..MaxCount}

\* main has built the Pinger (Pinger::new, with_count) and called run
RunInit(counts) ==
    /\ pc = "new"
    /\ count \in counts
    /\ socket = None
    /\ current_ping_start = None
    /\ running = TRUE
    /\ handler = FALSE
    /\ seq = 0
    /\ stats = NewStats
    /\ result = NoResult
    /\ openFds = 0
    /\ inbound = <<>>
    /\ wire = <<>>
    /\ lastLine = None
    /\ summary = None
    /\ nSummaries = 0
    /\ sendsAfterStore = 0

\* no checksum development
CkIdle ==
    /\ ckBuf = <<>>
    /\ ckSum = 0
    /\ ckPc = "idle"

\* no PingStats development
StIdle ==
    /\ recorded = <<>>
    /\ calls = 0
    /\ stOut = None

\* parse_args not under study
PaIdle ==
    /\ args = <<>>
    /\ argi = 0
    /\ opts = None
    /\ parsed = NoResult
    /\ lookups = <<>>

Init ==
    /\ RunInit(Counts)
    /\ CkIdle
    /\ StIdle
    /\ PaIdle

\* Pinger::init succeeds: Socket::new, then self.socket = Some(socket),
\* which drops (closes) the socket the field held before
InitOk ==
    /\ pc = "new"
    /\ openFds' = openFds + 1 - (IF socket = None THEN 0 ELSE 1)
    /\ socket' = Some("raw")
    /\ pc' = "set_handler"
    /\ UNCHANGED <<count, current_ping_start, running, handler, seq, stats,
                   result, inbound, wire, lastLine, summary, nSummaries,
                   sendsAfterStore, ckVars, stVars, paVars>>

\* Socket::new fails: `?` returns SocketError from init and from run
InitFail ==
    /\ pc = "new"
    /\ result' = "SocketError"
    /\ pc' = "returned"
    /\ UNCHANGED <<count, socket, current_ping_start, running, handler, seq,
                   stats, openFds, inbound, wire, lastLine, summary,
                   nSummaries, sendsAfterStore, ckVars, stVars, paVars>>

\* ctrlc::set_handler installs the closure
SetHandlerOk ==
    /\ pc = "set_handler"
    /\ handler' = TRUE
    /\ pc' = "loop"
    /\ UNCHANGED <<count, socket, current_ping_start, running, seq, stats,
                   result, openFds, inbound, wire, lastLine, summary,
                   nSummaries, sendsAfterStore, ckVars, stVars, paVars>>

\* ctrlc::set_handler fails: `?` returns SignalError from run
SetHandlerFail ==
    /\ pc = "set_handler"
    /\ result' = "SignalError"
    /\ pc' = "returned"
    /\ UNCHANGED <<count, socket, current_ping_start, running, handler, seq,
                   stats, openFds, inbound, wire, lastLine, summary,
                   nSummaries, sendsAfterStore, ckVars, stVars, paVars>>

\* the closure handed to ctrlc: running.store(false, SeqCst)
SignalHandler ==
    /\ handler
    /\ pc # "exit"
    /\ running' = FALSE
    /\ UNCHANGED <<pc, count, socket, current_ping_start, handler, seq, stats,
                   result, openFds, inbound, wire, lastLine, summary,
                   nSummaries, sendsAfterStore, ckVars, stVars, paVars>>

\* Pinger::shoud_continue
shoud_continue(s) == IF count = None THEN TRUE ELSE s < Unwrap(count)

\* a loop that never looks at the flag
LoopCondition_noFlag == shoud_continue(seq)

\* self.shoud_continue(seq) && self.running.load(SeqCst)
LoopCondition == shoud_continue(seq) /\ running

\* the `while` condition holds: the body is entered
LoopEnter ==
    /\ pc = "loop"
    /\ LoopCondition
    /\ count = None => seq < MaxSent
    /\ pc' = "send"
    /\ UNCHANGED <<count, socket, current_ping_start, running, handler, seq,
                   stats, result, openFds, inbound, wire, lastLine, summary,
                   nSummaries, sendsAfterStore, ckVars, stVars, paVars>>

\* the `while` condition fails: the loop is left
LoopExit ==
    /\ pc = "loop"
    /\ ~LoopCondition
    /\ pc' = "stats"
    /\ UNCHANGED <<count, socket, current_ping_start, running, handler, seq,
                   stats, result, openFds, inbound, wire, lastLine, summary,
                   nSummaries, sendsAfterStore, ckVars, stVars, paVars>>

\* send_ping returns Ok: the frame is sent, the statistics and the
\* timestamp are updated
SendOk ==
    /\ pc = "send"
    /\ IF socket = None
       THEN /\ result' = "SocketNotInitialized"
            /\ pc' = "returned"
            /\ UNCHANGED <<wire, stats, current_ping_start, sendsAfterStore>>
       ELSE /\ wire' = BuildRequest(seq)
            /\ stats' = record_sent(stats)
            /\ current_ping_start' = Some("start")
            /\ sendsAfterStore' = sendsAfterStore + (IF running THEN 0 ELSE 1)
            /\ pc' = "recv"
            /\ UNCHANGED result
    /\ UNCHANGED <<count, socket, running, handler, seq, openFds, inbound,
                   lastLine, summary, nSummaries, ckVars, stVars, paVars>>

\* socket.send_to fails: `?` returns SocketError from send_ping and run
SendFail ==
    /\ pc = "send"
    /\ socket # None
    /\ result' = "SocketError"
    /\ pc' = "returned"
    /\ UNCHANGED <<count, socket, current_ping_start, running, handler, seq,
                   stats, openFds, inbound, wire, lastLine, summary,
                   nSummaries, sendsAfterStore, ckVars, stVars, paVars>>

\* recv_from copies at most the 64 bytes of the buffer
Received(frame) ==
    IF Len(frame) > RecvBufLen THEN SubSeq(frame, 1, RecvBufLen) ELSE frame

\* a receive_pong that reads the timestamp without taking it
TakeStart_kept == current_ping_start

\* self.current_ping_start.take() leaves None in the field
TakeStart == None

\* recv_from returns a frame (it blocks while none is queued); the frame is
\* classified, and run's `?` returns on Err(InvalidResponse)
RecvFrame ==
    /\ pc = "recv"
    /\ socket # None
    /\ inbound # <<>>
    /\ inbound' = Tail(inbound)
    /\ LET buf == Received(Head(inbound))
       IN  IF Decode(buf) = "Ok"
           THEN /\ IF current_ping_start # None
                   THEN \E rtt \in 1..MaxRtt :
                          /\ stats' = record_received(stats, rtt)
                          /\ lastLine' = Some(
                               [bytes |-> PacketSize + IcmpHeaderLen,
                                icmp_seq |-> from_be_bytes(At(buf, 24), At(buf, 25)),
                                ttl |-> At(buf, 8),
                                time |-> rtt])
                          /\ current_ping_start' = TakeStart
                   ELSE UNCHANGED <<stats, lastLine, current_ping_start>>
                /\ pc' = "sleep"
                /\ UNCHANGED result
           ELSE /\ result' = "InvalidResponse"
                /\ pc' = "returned"
                /\ UNCHANGED <<stats, lastLine, current_ping_start>>
    /\ UNCHANGED <<count, socket, running, handler, seq, openFds, wire,
                   summary, nSummaries, sendsAfterStore, ckVars, stVars, paVars>>

\* recv_from fails: `?` returns SocketError from receive_pong and run
RecvFail ==
    /\ pc = "recv"
    /\ socket # None
    /\ result' = "SocketError"
    /\ pc' = "returned"
    /\ UNCHANGED <<count, socket, current_ping_start, running, handler, seq,
                   stats, openFds, inbound, wire, lastLine, summary,
                   nSummaries, sendsAfterStore, ckVars, stVars, paVars>>

\* seq += 1; std::thread::sleep(interval)
Sleep ==
    /\ pc = "sleep"
    /\ seq' = seq + 1
    /\ pc' = "loop"
    /\ UNCHANGED <<count, socket, current_ping_start, running, handler, stats,
                   result, openFds, inbound, wire, lastLine, summary,
                   nSummaries, sendsAfterStore, ckVars, stVars, paVars>>

\* what print_statistics prints of a PingStats
SummaryOf(s) ==
    [transmitted |-> s.packets_sent,
     received |-> s.packets_received,
     loss |-> get_loss_percetange(s),
     rtt |-> format_rtt(s)]

\* a summary that prints the counters of a fresh PingStats
SummaryLine_fresh == SummaryOf(NewStats)

\* "{} packets transmitted, {} received, {}% packet loss" and
\* "rtt min/avg/max = {} ms" of print_statistics
SummaryLine == SummaryOf(stats)

\* print_statistics, then run returns Ok(())
PrintStatistics ==
    /\ pc = "stats"
    /\ summary' = Some(SummaryLine)
    /\ nSummaries' = nSummaries + 1
    /\ result' = "Ok"
    /\ pc' = "returned"
    /\ UNCHANGED <<count, socket, current_ping_start, running, handler, seq,
                   stats, openFds, inbound, wire, lastLine, ckVars, stVars, paVars,
                   sendsAfterStore>>

\* a drop that leaves the descriptor open
ClosedBy_leak(held) == 0

\* descriptors closed when an Option<Socket> holding `held` is dropped
ClosedBy(held) == IF held = None THEN 0 ELSE 1

\* main returns (Ok or Err): the Pinger, and with it the socket, is dropped
MainExit ==
    /\ pc = "returned"
    /\ openFds' = openFds - ClosedBy(socket)
    /\ socket' = None
    /\ pc' = "exit"
    /\ UNCHANGED <<count, current_ping_start, running, handler, seq, stats,
                   result, inbound, wire, lastLine, summary, nSummaries,
                   sendsAfterStore, ckVars, stVars, paVars>>

\* the network delivers a frame to the raw socket
Deliver ==
    /\ socket # None
    /\ pc \in {"set_handler", "loop", "send", "recv", "sleep"}
    /\ Len(inbound) < MaxInbound
    /\ \E f \in Frames : inbound' = Append(inbound, f)
    /\ UNCHANGED <<pc, count, socket, current_ping_start, running, handler,
                   seq, stats, result, openFds, wire, lastLine, summary,
                   nSummaries, sendsAfterStore, ckVars, stVars, paVars>>

\* the steps of the main thread that need nothing from outside
MainStep ==
    \/ InitOk
    \/ SetHandlerOk
    \/ LoopEnter
    \/ LoopExit
    \/ SendOk
    \/ RecvFrame
    \/ Sleep
    \/ PrintStatistics
    \/ MainExit

Next ==
    \/ InitOk
    \/ InitFail
    \/ SetHandlerOk
    \/ SetHandlerFail
    \/ SignalHandler
    \/ LoopEnter
    \/ LoopExit
    \/ SendOk
    \/ SendFail
    \/ RecvFrame
    \/ RecvFail
    \/ Sleep
    \/ PrintStatistics
    \/ MainExit
    \/ Deliver

Spec == Init /\ [][Next]_vars

\* the main thread is scheduled: a step it can take is eventually taken.
\* Nothing obliges the network to deliver a frame, a call to fail or the
\* user to press Ctrl-C.
FairSpec == Init /\ [][Next]_vars /\ WF_vars(MainStep)

(***************************************************************************)
(* The session when every receive_pong gets a valid Echo Reply: the         *)
(* network delivers only frames that receive_pong accepts, delivers one     *)
(* whenever the socket has room, and recv_from does not fail.               *)
(***************************************************************************)
Replies == {f \in Frames : Decode(Received(f)) = "Ok"}

\* the network delivers an Echo Reply to the raw socket
DeliverReply ==
    /\ socket # None
    /\ pc \in {"set_handler", "loop", "send", "recv", "sleep"}
    /\ Len(inbound) < MaxInbound
    /\ \E f \in Replies : inbound' = Append(inbound, f)
    /\ UNCHANGED <<pc, count, socket, current_ping_start, running, handler,
                   seq, stats, result, openFds, wire, lastLine, summary,
                   nSummaries, sendsAfterStore, ckVars, stVars, paVars>>

ReplyNext ==
    \/ InitOk
    \/ InitFail
    \/ SetHandlerOk
    \/ SetHandlerFail
    \/ SignalHandler
    \/ LoopEnter
    \/ LoopExit
    \/ SendOk
    \/ SendFail
    \/ RecvFrame
    \/ Sleep
    \/ PrintStatistics
    \/ MainExit
    \/ DeliverReply

\* the main thread is scheduled, and a reply always arrives
ReplySpec ==
    Init /\ [][ReplyNext]_vars /\ WF_vars(MainStep) /\ WF_vars(DeliverReply)

(***************************************************************************)
(* calculate_checksum on its own: a buffer whose checksum field (bytes 2    *)
(* and 3) is zero gets its checksum computed and written into the field,    *)
(* as send_ping does (pinger.rs 96-97), and the result is summed again, as  *)
(* a receiver does.  The frames send_ping builds enter at "embedded".       *)
(***************************************************************************)
ByteVals == {0, 1, 128, 255}
SeqSamples == {0, 1, 255, 256, 65535}

\* buffers of 4..MaxBufLen bytes with a zero checksum field, and the headers
\* of send_ping before the checksum is written
CkInputs ==
    {b \in UNION {[1..n -> ByteVals] : n \in 4..MaxBufLen} : b[3] = 0 /\ b[4] = 0}
        \cup {RequestHeader(s) : s \in SeqSamples}

CkInit ==
    /\ RunInit({None})
    /\ StIdle
    /\ PaIdle
    /\ ckSum = 0
    /\ \/ ckPc = "start" /\ ckBuf \in CkInputs
       \/ ckPc = "embedded" /\ ckBuf \in {BuildRequest(s) : s \in SeqSamples}

\* let checksum = Self::calculate_checksum(&buf)
CkCompute ==
    /\ ckPc = "start"
    /\ ckSum' = calculate_checksum(ckBuf)
    /\ ckPc' = "computed"
    /\ UNCHANGED <<ckBuf, runVars, stVars, paVars>>

\* buf[2..4].copy_from_slice(&checksum.to_be_bytes())
CkEmbed ==
    /\ ckPc = "computed"
    /\ ckBuf' = copy_from_slice(ckBuf, 2, to_be_bytes(ckSum))
    /\ ckPc' = "embedded"
    /\ UNCHANGED <<ckSum, runVars, stVars, paVars>>

\* calculate_checksum over the buffer that carries its checksum
CkVerify ==
    /\ ckPc = "embedded"
    /\ ckSum' = calculate_checksum(ckBuf)
    /\ ckPc' = "verified"
    /\ UNCHANGED <<ckBuf, runVars, stVars, paVars>>

CkNext ==
    \/ CkCompute
    \/ CkEmbed
    \/ CkVerify

CkSpec == CkInit /\ [][CkNext]_vars

(***************************************************************************)
(* PingStats on its own: a fresh PingStats driven through its public        *)
(* methods, as the tests of lib.rs do (lib.rs 132-165).  StSpec calls       *)
(* record_sent and record_received; ApiSpec also calls update_rtt, which    *)
(* is public too.  A query reads the getters.                               *)
(***************************************************************************)
\* calls made to one PingStats
MaxCalls == 7

\* the session variables a PingStats development leaves alone
sessionVars == <<pc, count, socket, current_ping_start, running, handler, seq,
                 result, openFds, inbound, wire, lastLine, summary,
                 nSummaries, sendsAfterStore>>

StInit ==
    /\ RunInit({None})
    /\ CkIdle
    /\ StIdle
    /\ PaIdle

\* stats.record_sent()
StRecordSent ==
    /\ calls < MaxCalls
    /\ stats' = record_sent(stats)
    /\ calls' = calls + 1
    /\ stOut' = None
    /\ UNCHANGED <<recorded, sessionVars, ckVars, paVars>>

\* stats.record_received(rtt)
StRecordReceived ==
    /\ calls < MaxCalls
    /\ \E rtt \in 1..MaxRtt :
          /\ stats' = record_received(stats, rtt)
          /\ recorded' = Append(recorded, rtt)
    /\ calls' = calls + 1
    /\ stOut' = None
    /\ UNCHANGED <<sessionVars, ckVars, paVars>>

\* stats.update_rtt(rtt)
StUpdateRtt ==
    /\ calls < MaxCalls
    /\ \E rtt \in 1..MaxRtt : stats' = update_rtt(stats, rtt)
    /\ calls' = calls + 1
    /\ stOut' = None
    /\ UNCHANGED <<recorded, sessionVars, ckVars, paVars>>

\* the getters: get_loss_percetange, get_min_rtt, get_avg_rtt,
\* get_max_rtt, format_rtt
StQuery ==
    /\ stOut = None
    /\ stOut' = Some([loss |-> get_loss_percetange(stats),
                      min |-> stats.min_rtt,
                      avg |-> get_avg_rtt(stats),
                      max |-> stats.max_rtt,
                      fmt |-> format_rtt(stats)])
    /\ UNCHANGED <<stats, recorded, calls, sessionVars, ckVars, paVars>>

StNext ==
    \/ StRecordSent
    \/ StRecordReceived
    \/ StQuery

StSpec == StInit /\ [][StNext]_vars

ApiNext ==
    \/ StRecordSent
    \/ StRecordReceived
    \/ StUpdateRtt
    \/ StQuery

ApiSpec == StInit /\ [][ApiNext]_vars

(***************************************************************************)
(* parse_args (lib.rs 27-81): the argument list is the program name         *)
(* followed by up to MaxArgs tokens; one action per turn of the while       *)
(* loop.  lookup_host is the system resolver: for a token that is not an    *)
(* address literal it fails, or answers with an IPv4 address, or answers    *)
(* with IPv6 addresses only.                                                *)
(***************************************************************************)
\* tokens after the program name
MaxArgs == 3

Tokens == {"-c", "-i", "5", "-1", "8.8.8.8", "1.1.1.1", "::1", "localhost"}

RECURSIVE TokenLists(_)
TokenLists(n) ==
    IF n = 0 THEN {<<>>}
    ELSE LET shorter == TokenLists(n - 1)
         IN  shorter \cup {Append(l, t) : l \in {x \in shorter : Len(x) = n - 1},
                                          t \in Tokens}

ArgLists == {<<"rs_ping">> \o l : l \in TokenLists(MaxArgs)}

\* str::parse::<u32>
ParseU32(tok) == IF tok = "5" THEN Some(5) ELSE None

\* str::parse::<f64>
ParseF64(tok) ==
    IF tok = "5" THEN Some(5)
    ELSE IF tok = "-1" THEN Some(-1)
    ELSE None

\* str::parse::<IpAddr>
ParseIpAddr(tok) ==
    IF tok \in {"8.8.8.8", "1.1.1.1"} THEN "V4"
    ELSE IF tok = "::1" THEN "V6"
    ELSE "Err"

\* an IpAddr: the literal it was parsed from, the name the resolver
\* answered for, or the unspecified address PingOpts starts with
Addr(kind, of) == [kind |-> kind, of |-> of]
Unspecified == Addr("default", "0.0.0.0")

InvalidAddress(msg) == "InvalidAddress: " \o msg
Panicked == "panic"

PaInit ==
    /\ RunInit({None})
    /\ CkIdle
    /\ StIdle
    /\ args \in ArgLists
    /\ argi = 0
    /\ opts = None
    /\ parsed = NoResult
    /\ lookups = <<>>

\* lib.rs 29-39: the length check and the default options
PaStart ==
    /\ args # <<>>
    /\ argi = 0
    /\ parsed = NoResult
    /\ IF Len(args) < 2
       THEN /\ parsed' = InvalidAddress("Invalid number of arguments")
            /\ UNCHANGED <<argi, opts>>
       ELSE /\ opts' = Some([target |-> Unspecified, count |-> None,
                             interval |-> None])
            /\ argi' = 1
            /\ UNCHANGED parsed
    /\ UNCHANGED <<args, lookups, runVars, ckVars, stVars>>

InLoop == argi >= 1 /\ argi < Len(args) /\ parsed = NoResult

\* lib.rs 42-48: "-c"
PaCount ==
    /\ InLoop
    /\ At(args, argi) = "-c"
    /\ IF argi + 1 >= Len(args)
       THEN /\ parsed' = InvalidAddress("Missing count value")
            /\ UNCHANGED <<argi, opts>>
       ELSE IF ParseU32(At(args, argi + 1)) = None
       THEN /\ parsed' = InvalidAddress("Invalid count value")
            /\ UNCHANGED <<argi, opts>>
       ELSE /\ opts' = Some([Unwrap(opts) EXCEPT
                                !.count = ParseU32(At(args, argi + 1))])
            /\ argi' = argi + 2
            /\ UNCHANGED parsed
    /\ UNCHANGED <<args, lookups, runVars, ckVars, stVars>>

\* lib.rs 49-56: "-i"; Duration::from_secs_f64 panics on a negative value
PaInterval ==
    /\ InLoop
    /\ At(args, argi) = "-i"
    /\ IF argi + 1 >= Len(args)
       THEN /\ parsed' = InvalidAddress("Missing interval value")
            /\ UNCHANGED <<argi, opts>>
       ELSE IF ParseF64(At(args, argi + 1)) = None
       THEN /\ parsed' = InvalidAddress("Invalid interval value")
            /\ UNCHANGED <<argi, opts>>
       ELSE IF Unwrap(ParseF64(At(args, argi + 1))) < 0
       THEN /\ parsed' = Panicked
            /\ UNCHANGED <<argi, opts>>
       ELSE /\ opts' = Some([Unwrap(opts) EXCEPT
                                !.interval = ParseF64(At(args, argi + 1))])
            /\ argi' = argi + 2
            /\ UNCHANGED parsed
    /\ UNCHANGED <<args, lookups, runVars, ckVars, stVars>>

\* lib.rs 57-76: any other token is the target
PaTarget ==
    /\ InLoop
    /\ At(args, argi) \notin {"-c", "-i"}
    /\ LET arg == At(args, argi)
       IN  IF ParseIpAddr(arg) = "V4"
           THEN /\ opts' = Some([Unwrap(opts) EXCEPT
                                    !.target = Addr("literal", arg)])
                /\ argi' = argi + 1
                /\ UNCHANGED <<parsed, lookups>>
           ELSE IF ParseIpAddr(arg) = "V6"
           THEN /\ parsed' = InvalidAddress("IPv6 isn't supported yet")
                /\ UNCHANGED <<argi, opts, lookups>>
           ELSE /\ lookups' = Append(lookups, arg)
                /\ \E answer \in {"Err", "V4", "V6 only"} :
                      IF answer = "V4"
                      THEN /\ opts' = Some([Unwrap(opts) EXCEPT
                                               !.target = Addr("resolved", arg)])
                           /\ argi' = argi + 1
                           /\ UNCHANGED parsed
                      ELSE IF answer = "V6 only"
                      THEN /\ parsed' = InvalidAddress("No IPv4 address found")
                           /\ UNCHANGED <<argi, opts>>
                      ELSE /\ parsed' = InvalidAddress("Could not resolve hostname")
                           /\ UNCHANGED <<argi, opts>>
    /\ UNCHANGED <<args, runVars, ckVars, stVars>>

\* lib.rs 40, 80: the loop is over, Ok(opts)
PaReturn ==
    /\ argi >= 1
    /\ argi >= Len(args)
    /\ parsed = NoResult
    /\ parsed' = "Ok"
    /\ UNCHANGED <<args, argi, opts, lookups, runVars, ckVars, stVars>>

PaNext ==
    \/ PaStart
    \/ PaCount
    \/ PaInterval
    \/ PaTarget
    \/ PaReturn

PaSpec == PaInit /\ [][PaNext]_vars

(***************************************************************************)
(* Properties.                                                              *)
(***************************************************************************)
\* receive_pong is about to read a frame that fails validation
InvalidFrameRead ==
    /\ pc = "recv"
    /\ inbound # <<>>
    /\ inbound' = Tail(inbound)
    /\ Decode(Received(Head(inbound))) = "InvalidResponse"

\* C1: a received frame that fails validation (shorter than 28 bytes, or a
\* type other than 0 at offset 20) does not end the loop: the statistics
\* stay as they are, run does not return, and the iteration goes on to its
\* sleep and to the next iteration.
C1_InvalidFrameSkipped ==
    [][InvalidFrameRead =>
         /\ stats' = stats
         /\ result' = NoResult
         /\ pc' = "sleep"]_vars

\* run has returned without a signal and without a failure of the socket
\* or of the handler installation
UndisturbedReturn ==
    /\ pc \in {"returned", "exit"}
    /\ running
    /\ result \notin {"SocketError", "SignalError", "SocketNotInitialized"}

\* C2: with count = N, no termination signal and no socket failure, run
\* ends with packets_sent = N, whatever frames were delivered as replies
\* (none when N = 0).
C2_ExactlyCountSends ==
    (UndisturbedReturn /\ count # None) => stats.packets_sent = Unwrap(count)

\* C3: the wait for a reply is bounded: an iteration waiting in
\* receive_pong always ends, also when no reply ever arrives.
C3_ReceiveBounded == (pc = "recv") ~> (pc # "recv")

\* C4: packets_received <= packets_sent in every state; neither counter
\* ever decreases; packets_sent changes only by a successful transmit,
\* which adds exactly one, and packets_received grows by one at a time.
C4_Counters ==
    /\ [](stats.packets_received <= stats.packets_sent)
    /\ [][/\ stats'.packets_sent >= stats.packets_sent
          /\ stats'.packets_received >= stats.packets_received
          /\ stats'.packets_received <= stats.packets_received + 1
          /\ (pc = "send" /\ pc' = "recv")
               <=> stats'.packets_sent = stats.packets_sent + 1
          /\ stats'.packets_sent # stats.packets_sent
               => stats'.packets_sent = stats.packets_sent + 1]_vars

\* a reply has been counted and a later request is still unanswered
C4_Witness ==
    /\ stats.packets_received >= 1
    /\ stats.packets_sent = stats.packets_received + 1

\* C5: the handler's store changes nothing but the flag (it interrupts no
\* iteration in progress); an iteration is never entered once the flag is
\* false, so no request is transmitted in an iteration that starts after
\* the store; at most one request, that of the iteration in progress, is
\* transmitted after the store.
C5_Cooperative ==
    [][/\ (running /\ ~running') =>
            UNCHANGED <<pc, seq, stats, current_ping_start, result, wire,
                        socket, inbound, lastLine, summary>>
       /\ (pc = "loop" /\ ~running) => pc' # "send"
       /\ sendsAfterStore' <= 1]_vars

\* the store came between the check and the transmit of an iteration of an
\* unbounded run; that iteration completed and the run then ended
C5_Witness ==
    /\ count = None
    /\ sendsAfterStore = 1
    /\ result = "Ok"

\* C6: when the loop is left (count reached, or flag seen false) the
\* summary is printed exactly once, with the final packets_sent and
\* packets_received, and nothing is sent or received after it.
C6_SummaryOnce ==
    /\ [](/\ nSummaries <= 1
          /\ (pc \in {"returned", "exit"} /\ result = "Ok") =>
                /\ nSummaries = 1
                /\ Unwrap(summary).transmitted = stats.packets_sent
                /\ Unwrap(summary).received = stats.packets_received)
    /\ [][/\ (pc = "stats" /\ pc' # "stats") => nSummaries' = 1
          /\ nSummaries >= 1 =>
                /\ stats' = stats
                /\ wire' = wire
                /\ inbound' = inbound
                /\ nSummaries' = nSummaries]_vars

\* a signal-driven end of an unbounded run after two answered requests
C6_Witness ==
    /\ count = None
    /\ ~running
    /\ nSummaries = 1
    /\ Unwrap(summary).transmitted = 2
    /\ Unwrap(summary).received = 2

\* C7 as stated: once run has returned from a loop that ended (count
\* reached, or flag seen false) the session holds no open socket, and at no
\* time is more than one socket open.
C7_ReleasedAtReturn ==
    /\ openFds <= 1
    /\ (pc \in {"returned", "exit"} /\ result = "Ok")
          => (socket = None /\ openFds = 0)

\* C7 amended: at no time is more than one socket open, and the open
\* descriptor is the one the Pinger holds; run itself releases nothing (a
\* run that opened the socket returns with it still held); the socket is
\* closed when main drops the Pinger, after a normal end, a signal-driven
\* end and an error alike.
C7_ReleasedAtExit ==
    /\ openFds <= 1
    /\ openFds = 1 <=> socket # None
    /\ (pc = "returned" /\ result \in {"Ok", "InvalidResponse", "SignalError"})
          => socket # None
    /\ pc = "exit" => (socket = None /\ openFds = 0)

\* main has exited after a signal-driven end of a run that pinged
C7_Witness ==
    /\ pc = "exit"
    /\ result = "Ok"
    /\ ~running
    /\ stats.packets_sent >= 1
    /\ openFds = 0

\* C8: no request is outstanding at the top of an iteration nor when the
\* next one is transmitted (the timestamp set by the transmit has been
\* cleared), at most one request is unanswered at any time, and a request
\* is transmitted only when every earlier one has had its receive.
C8_Synchronous ==
    /\ pc \in {"loop", "send"} => current_ping_start = None
    /\ current_ping_start # None => pc \in {"recv", "returned", "exit"}
    /\ stats.packets_sent - stats.packets_received \in {0, 1}
    /\ pc = "send" => stats.packets_sent = stats.packets_received

\* the top of the second iteration: a request was sent and answered
C8_Witness ==
    /\ pc = "loop"
    /\ stats.packets_sent >= 1
    /\ current_ping_start = None

\* the checksum field of a frame holds the checksum of the frame computed
\* with that field zeroed
ChecksumFieldRight(frame) ==
    from_be_bytes(At(frame, 2), At(frame, 3))
        = calculate_checksum(copy_from_slice(frame, 2, <<0, 0>>))

\* C9: every frame transmitted is an 8-byte header followed by packet_size
\* zero bytes (8 + packet_size bytes in all), with type 8, code 0 and a
\* right checksum.
C9_FrameLayout ==
    wire # <<>> =>
        /\ Len(wire) = IcmpHeaderLen + PacketSize
        /\ At(wire, 0) = EchoRequest
        /\ At(wire, 1) = 0
        /\ \A i \in IcmpHeaderLen..(Len(wire) - 1) : At(wire, i) = 0
        /\ ChecksumFieldRight(wire)

\* C10: a buffer with a zero checksum field, once calculate_checksum of it
\* is written big-endian into the field, sums to 0 under
\* calculate_checksum; so does every frame send_ping builds.
C10_RoundTrip == ckPc = "verified" => ckSum = 0

\* an odd-length buffer with carries to fold, verified
C10_Witness ==
    /\ ckPc = "verified"
    /\ Len(ckBuf) % 2 = 1
    /\ At(ckBuf, 0) = 255
    /\ At(ckBuf, 4) = 255
    /\ At(ckBuf, 3) # 0

\* the sequence number field of an ICMP Echo header: bytes 6 and 7, after
\* type, code, checksum (2) and identifier (2)
SequenceNumberField(frame) == from_be_bytes(At(frame, 6), At(frame, 7))

\* C11: the k-th transmitted request (k from 0) carries the sequence
\* number k mod 65536.
C11_SequenceNumber ==
    wire # <<>> => SequenceNumberField(wire) = (stats.packets_sent - 1) % U16

\* receive_pong takes the oldest queued frame
FrameRead ==
    /\ pc = "recv"
    /\ inbound # <<>>
    /\ inbound' = Tail(inbound)

\* C12: a frame is classified by its length and by the byte at offset 20
\* alone: shorter than 28 bytes, or another type than 0, is
\* InvalidResponse and leaves the statistics and the output as they were;
\* otherwise the reply is accepted and its line reports bytes 24-25,
\* big-endian, as the sequence number and byte 8 as the TTL.
C12_Decoding ==
    [][FrameRead =>
         LET f == Head(inbound)
         IN  IF Len(f) < 28 \/ f[21] # 0
             THEN /\ result' = "InvalidResponse"
                  /\ stats' = stats
                  /\ lastLine' = lastLine
             ELSE /\ result' = NoResult
                  /\ lastLine' # None
                  /\ Unwrap(lastLine').icmp_seq = f[25] * 256 + f[26]
                  /\ Unwrap(lastLine').ttl = f[9]]_vars

\* a reply with sequence bytes 01 02 and TTL 64 was accepted and printed
C12_Witness ==
    /\ lastLine # None
    /\ Unwrap(lastLine).icmp_seq = 258
    /\ Unwrap(lastLine).ttl = 64
    /\ result = NoResult

\* C16: a frame of 28 bytes or more with type 0 is taken as the reply to
\* the outstanding request whatever its bytes 24-25 (and its identifier)
\* hold: packets_received grows by one, the time elapsed since the last
\* transmit is added to the RTT statistics, the request is no longer
\* outstanding and the iteration goes on.
C16_AnyReplyMatches ==
    [][(FrameRead /\ Len(Head(inbound)) >= 28 /\ Head(inbound)[21] = 0) =>
         /\ stats'.packets_received = stats.packets_received + 1
         /\ stats'.total_rtt - stats.total_rtt \in 1..MaxRtt
         /\ stats'.min_rtt # None
         /\ current_ping_start # None
         /\ current_ping_start' = None
         /\ pc' = "sleep"]_vars

\* the first request (bytes 4-5: 00 00) was answered, and counted, by a
\* reply that carries 01 02 in bytes 24-25
C16_Witness ==
    /\ stats.packets_sent = 1
    /\ stats.packets_received = 1
    /\ from_be_bytes(At(wire, 4), At(wire, 5)) = 0
    /\ lastLine # None
    /\ Unwrap(lastLine).icmp_seq = 258

\* C18: at the top of every iteration packets_sent = packets_received =
\* seq; every summary printed reports as many received as transmitted and
\* a loss of 0 %; a run that ended with a request unanswered printed no
\* summary.
C18_NoLossEverReported ==
    /\ pc = "loop" =>
          (stats.packets_sent = seq /\ stats.packets_received = seq)
    /\ summary # None =>
          /\ Unwrap(summary).received = Unwrap(summary).transmitted
          /\ Unwrap(summary).loss.underflow = FALSE
          /\ Unwrap(summary).loss.num = 0
    /\ (pc \in {"returned", "exit"}
          /\ stats.packets_sent # stats.packets_received) => nSummaries = 0

\* a run that answered two requests printed its summary
C18_Witness ==
    /\ summary # None
    /\ Unwrap(summary).transmitted = 2
    /\ Unwrap(summary).loss = Fraction(0, 2)
    /\ Unwrap(summary).rtt.text # "---/---/--- ms"

\* the handler has stored false while run has not returned
StoppedWhileRunning == ~running /\ result = NoResult

\* C17 as stated: with a valid reply to every receive and a fairly
\* scheduled loop, once the flag is false the summary is eventually
\* printed.
C17_AsStated == StoppedWhileRunning ~> (nSummaries = 1)

\* C17 amended: with a valid reply to every receive and a fairly scheduled
\* loop, once the flag is false the run eventually prints the summary or
\* has returned a SocketError (a send_to that failed), for every count,
\* unbounded included; a receive in progress when the flag is false is
\* left only by its reply, and then towards the end of its iteration.
C17_SignalShutdown ==
    /\ StoppedWhileRunning ~> (nSummaries = 1 \/ result = "SocketError")
    /\ [][(~running /\ pc = "recv") => pc' \in {"recv", "sleep"}]_vars

\* an unbounded run ended by a signal that came after its only transmit
C17_Witness ==
    /\ pc = "exit"
    /\ count = None
    /\ ~running
    /\ sendsAfterStore = 0
    /\ stats.packets_received = 1
    /\ nSummaries = 1

\* C13: with packets_received <= packets_sent, get_loss_percetange is 0
\* when packets_sent = 0 and (packets_sent - packets_received) /
\* packets_sent * 100 otherwise: 25 for 4 sent and 3 received, 0 when all
\* were received, 100 when none were.
C13_LossPercentage ==
    (stOut # None /\ stats.packets_received <= stats.packets_sent) =>
        LET loss == Unwrap(stOut).loss
            sent == stats.packets_sent
            received == stats.packets_received
        IN  /\ loss.underflow = FALSE
            /\ loss.den > 0
            /\ sent = 0 => loss.num = 0
            /\ sent > 0 => loss.num * sent = (sent - received) * 100 * loss.den
            /\ (sent = 4 /\ received = 3) => loss.num = 25 * loss.den
            /\ (sent > 0 /\ received = sent) => loss.num = 0
            /\ (sent > 0 /\ received = 0) => loss.num = 100 * loss.den

\* the loss of 4 sent and 3 received has been read
C13_Witness ==
    /\ stOut # None
    /\ stats.packets_sent = 4
    /\ stats.packets_received = 3
    /\ Unwrap(stOut).loss.num = 25 * Unwrap(stOut).loss.den

RECURSIVE SumOf(_)
SumOf(rs) == IF rs = <<>> THEN 0 ELSE Head(rs) + SumOf(Tail(rs))
MinOf(rs) == CHOOSE m \in {rs[k] : k \in 1..Len(rs)} : \A k \in 1..Len(rs) : m <= rs[k]
MaxOf(rs) == CHOOSE m \in {rs[k] : k \in 1..Len(rs)} : \A k \in 1..Len(rs) : m >= rs[k]

\* C14: after record_received(r1..rn) on a fresh PingStats: with n = 0,
\* min, average and max are absent and format_rtt is "---/---/--- ms";
\* with n >= 1, min_rtt = min(ri), max_rtt = max(ri), the average is
\* (r1 + ... + rn) / n as a Duration (whole nanoseconds), and
\* min_rtt <= average <= max_rtt.
C14_RttAggregates ==
    stOut # None =>
        LET out == Unwrap(stOut)
            n == Len(recorded)
        IN  IF n = 0
            THEN /\ out.min = None
                 /\ out.avg = None
                 /\ out.max = None
                 /\ out.fmt.text = "---/---/--- ms"
            ELSE /\ out.min = Some(MinOf(recorded))
                 /\ out.max = Some(MaxOf(recorded))
                 /\ out.avg # None
                 /\ Unwrap(out.avg) * n <= SumOf(recorded)
                 /\ SumOf(recorded) < (Unwrap(out.avg) + 1) * n
                 /\ Unwrap(out.min) <= Unwrap(out.avg)
                 /\ Unwrap(out.avg) <= Unwrap(out.max)
                 /\ out.fmt.text # "---/---/--- ms"

\* three different-looking replies, read after requests were sent
C14_Witness ==
    /\ stOut # None
    /\ recorded = <<2, 1, 2>>
    /\ stats.packets_sent = 3
    /\ Unwrap(stOut).avg = Some(1)

\* C19: whatever calls of record_sent, record_received and update_rtt were
\* made, get_loss_percetange does not underflow and returns a value from 0
\* to 100, and an average that is present lies between min_rtt and max_rtt.
C19_ApiSafe ==
    stOut # None =>
        LET out == Unwrap(stOut)
        IN  /\ out.loss.underflow = FALSE
            /\ 0 <= out.loss.num
            /\ out.loss.num <= 100 * out.loss.den
            /\ out.avg # None =>
                  /\ out.min # None
                  /\ out.max # None
                  /\ Unwrap(out.min) <= Unwrap(out.avg)
                  /\ Unwrap(out.avg) <= Unwrap(out.max)

\* the tokens of the argument list that parse_args reads as targets: every
\* token that is neither an option flag nor the value after one
RECURSIVE TargetTokensFrom(_, _)
TargetTokensFrom(as, i) ==
    IF i > Len(as) THEN <<>>
    ELSE IF as[i] \in {"-c", "-i"} THEN TargetTokensFrom(as, i + 2)
    ELSE <<as[i]>> \o TargetTokensFrom(as, i + 1)
TargetTokens == TargetTokensFrom(args, 2)

IsInvalidAddress(r) == r \notin {NoResult, "Ok", Panicked}
Returned == parsed # NoResult

\* C15: an IPv4 literal target becomes the target without a hostname
\* lookup; an IPv6 literal anywhere in the argument list makes parse_args
\* fail with InvalidAddress; -c or -i as the last token makes parse_args
\* fail.
C15_AddressClasses ==
    Returned =>
        /\ \A k \in 1..Len(lookups) : ParseIpAddr(lookups[k]) # "V4"
        /\ (parsed = "Ok" /\ TargetTokens # <<>>
               /\ ParseIpAddr(TargetTokens[Len(TargetTokens)]) = "V4") =>
              Unwrap(opts).target = Addr("literal", TargetTokens[Len(TargetTokens)])
        /\ (\E k \in 2..Len(args) : ParseIpAddr(args[k]) = "V6") =>
              IsInvalidAddress(parsed)
        /\ (Len(args) >= 2 /\ args[Len(args)] \in {"-c", "-i"}) =>
              parsed # "Ok"

\* C20: parse_args returns Ok only when the argument list has a target
\* token, the returned target is the address of that token, an argument
\* list of options only is rejected, and with several target tokens the
\* result does not depend on their order.
C20_TargetRequired ==
    parsed = "Ok" =>
        /\ TargetTokens # <<>>
        /\ \A k \in 1..Len(TargetTokens) :
              Unwrap(opts).target.of = TargetTokens[k]
        /\ Unwrap(opts).target.kind # "default"

====
